---- MODULE Spec2Model ----
(***************************************************************************)
(* Render queue of the chromium-render service (lib/queue.js, the          *)
(* EventEmitter based Queue).                                              *)
(*                                                                         *)
(* The queue is driven by a single threaded event loop.  Every callback    *)
(* the event loop runs to completion is one action of this model:          *)
(*   - push (the promise executor), the two setTimeout callbacks, the      *)
(*     settlement of job.process() and of job.cancel(), and the caller's   *)
(*     promise.cancel() are callbacks started by a timer or by I/O;        *)
(*   - the handlers attached with .then/.finally and the onCancel hook     *)
(*     are run by the promise library (bluebird) from its own FIFO queue   *)
(*     of pending continuations, which it drains completely, in order,     *)
(*     in a later turn of the event loop.  asyncQueue is that queue and    *)
(*     draining says that a drain is in progress.                          *)
(*                                                                         *)
(* Promise semantics used by the queue (bluebird with cancellation         *)
(* enabled, server.js): a promise settles once, later resolve/reject       *)
(* calls are ignored; promise.cancel() on a pending promise puts it in     *)
(* the cancelled state at once, schedules the onCancel hook and then the   *)
(* finally handlers, and no then/catch handler is ever called for it       *)
(* ("bluebird cancellation does not affect finally handlers",              *)
(* lib/renderer.js); resolve/reject on a cancelled promise are ignored.    *)
(***************************************************************************)
EXTENDS Integers, Sequences, FiniteSets, TLC

\* ---------------------------------------------------------------- bounds
\* number of jobs submitted in a run
NumJobs == 3
\* largest configured concurrency and maxTaskCount
MaxConcurrency == 2
MaxTasks == 3
\* number of jobs of a run that do not simply run to a result: jobs whose
\* caller cancels the promise, or whose process() throws or rejects
MaxFaults == 1
\* number of jobs submitted in a run that is checked for progress
LiveJobs == 2

Jobs == 1..NumJobs

VARIABLES
    concurrency,        \* _options.concurrency
    maxTaskCount,       \* _options.maxTaskCount
    waitingJobs,        \* _waitingJobs: sequence of job ids
    inProgressJobs,     \* _inProgressJobs: sequence of job ids
    timeouts,           \* _timeouts: jobId -> which callback is armed
    processing,         \* _processing lock
    addedToTheQueueAt,  \* QueueItem._addedToTheQueueAt is set
    processStartedAt,   \* QueueItem._startedProcessingAt is set
    promise,            \* state of the promise created by push(job)
    processState,       \* state of the promise returned by job.process()
    cancelCalls,        \* number of job.cancel() invocations
    cancelPending,      \* unresolved job.cancel() promises, by continuation
    emitted,            \* events emitted for the job, in order
    payloads,           \* the object each of these events was emitted with
    asyncQueue,         \* continuations scheduled by the promise library
    draining,           \* the promise library is running its queue
    startOrder,         \* jobs in the order process.started was emitted
    clock,              \* Date.now() and the times it was read at
    renderer,           \* one Renderer (lib/renderer.js) and its browser
    glue                \* the route of routes/html2pdf-v1.js and its requests

queueState == <<concurrency, maxTaskCount, waitingJobs, inProgressJobs,
                timeouts, processing, addedToTheQueueAt, processStartedAt,
                promise, processState, cancelCalls, cancelPending, emitted,
                payloads, asyncQueue, draining, startOrder>>

queueVars == <<queueState, clock>>

vars == <<queueVars, renderer, glue>>

\* errors.js
QueueFull == "QueueFull"
QueueTimeout == "QueueTimeout"
JobTimeout == "JobTimeout"
ProcessingCancelled == "ProcessingCancelled"
\* errors.js, the errors of the Renderer
NavigationError == "NavigationError"
PuppeteerMalformedResponseError == "PuppeteerMalformedResponseError"
ForbiddenError == "ForbiddenError"
\* an error job.process() rejects with / throws synchronously
Failure == "Failure"
Thrown == "Thrown"

ErrorKinds == {QueueFull, QueueTimeout, JobTimeout, ProcessingCancelled,
               Failure, Thrown}
PromiseStates == {"none", "pending", "resolved", "cancelled"} \cup ErrorKinds

\* The whole mutable state as one record, so that the helper methods of the
\* class can be composed the way the code calls them.
State ==
    [waitingJobs |-> waitingJobs, inProgressJobs |-> inProgressJobs,
     timeouts |-> timeouts, processing |-> processing,
     addedToTheQueueAt |-> addedToTheQueueAt,
     processStartedAt |-> processStartedAt, promise |-> promise,
     processState |-> processState, cancelCalls |-> cancelCalls,
     cancelPending |-> cancelPending, emitted |-> emitted,
     payloads |-> payloads,
     asyncQueue |-> asyncQueue, startOrder |-> startOrder,
     concurrency |-> concurrency, maxTaskCount |-> maxTaskCount]

\* jobs cancelled by the caller, or whose process() threw or rejected
Faulty(s) ==
    {j \in Jobs : \/ s.promise[j] = "cancelled"
                  \/ s.processState[j] \in {"threw", "rejected"}}

\* The clock before any time has passed: now is Date.now(), in ticks;
\* addedAt and startedAt are the values notifyQueueAdd and notifyQueueStart
\* were called with, armedAt the time the timer of the job was set, and
\* settledAt the time the promise of the job was settled.
ClockStart ==
    [now |-> 0,
     addedAt |-> [j \in Jobs |-> 0],
     startedAt |-> [j \in Jobs |-> 0],
     armedAt |-> [j \in Jobs |-> 0],
     settledAt |-> [j \in Jobs |-> 0]]

\* the clock after a step that takes no time and leads to s
stamp(s) ==
    [now |-> clock.now,
     addedAt |-> [j \in Jobs |->
        IF ~addedToTheQueueAt[j] /\ s.addedToTheQueueAt[j]
        THEN clock.now ELSE clock.addedAt[j]],
     startedAt |-> [j \in Jobs |->
        IF ~processStartedAt[j] /\ s.processStartedAt[j]
        THEN clock.now ELSE clock.startedAt[j]],
     armedAt |-> [j \in Jobs |->
        IF s.timeouts[j] # "none" /\ s.timeouts[j] # timeouts[j]
        THEN clock.now ELSE clock.armedAt[j]],
     settledAt |-> [j \in Jobs |->
        IF promise[j] \in {"none", "pending"}
           /\ s.promise[j] \notin {"none", "pending"}
        THEN clock.now ELSE clock.settledAt[j]]]

Apply(s) ==
    /\ Cardinality(Faulty(s)) <= MaxFaults
    /\ clock' = stamp(s)
    /\ waitingJobs' = s.waitingJobs
    /\ inProgressJobs' = s.inProgressJobs
    /\ timeouts' = s.timeouts
    /\ processing' = s.processing
    /\ addedToTheQueueAt' = s.addedToTheQueueAt
    /\ processStartedAt' = s.processStartedAt
    /\ promise' = s.promise
    /\ processState' = s.processState
    /\ cancelCalls' = s.cancelCalls
    /\ cancelPending' = s.cancelPending
    /\ emitted' = s.emitted
    /\ payloads' = s.payloads
    /\ asyncQueue' = s.asyncQueue
    /\ startOrder' = s.startOrder
    /\ UNCHANGED <<concurrency, maxTaskCount, renderer, glue>>

\* A continuation waiting in the promise library's queue.
Cont(kind, job, arg) == [kind |-> kind, job |-> job, arg |-> arg]

schedule(s, c) == [s EXCEPT !.asyncQueue = Append(@, c)]

\* The object an event is emitted with: id is the set holding the job id it
\* carries (empty when it carries none), stamps the timestamps of the job it
\* carries, err the error of a process.failure.
EventData(id, stamps, err) == [id |-> id, stamps |-> stamps, err |-> err]

\* this.emit(name) without an object: the listeners get undefined
NoData == EventData({}, {}, "none")

\* EventEmitter.emit for an event about job id, emitted with data
emit(s, id, name, data) ==
    [s EXCEPT !.emitted[id] = Append(@, name),
              !.payloads[id] = Append(@, data)]

\* variant: a later resolve/reject overwrites the outcome
settleAgain(s, id, outcome) ==
    schedule([s EXCEPT !.promise[id] = outcome], Cont("finally", id, "none"))

\* resolve / reject of the promise made by push(): only the first settlement
\* of a pending promise takes effect; its .finally handler is then scheduled.
settle(s, id, outcome) ==
    IF s.promise[id] = "pending"
    THEN schedule([s EXCEPT !.promise[id] = outcome],
                  Cont("finally", id, "none"))
    ELSE s

resolve(s, id) == settle(s, id, "resolved")

reject(s, id, err) == settle(s, id, err)

countJobsInQueue(s) == Len(s.waitingJobs) + Len(s.inProgressJobs)

\* variant: only the waiting jobs are counted
isQueueFullWaitingOnly(s) == Len(s.waitingJobs) >= s.maxTaskCount

isQueueFull(s) == countJobsInQueue(s) >= s.maxTaskCount

_clearTimeout(s, id) == [s EXCEPT !.timeouts[id] = "none"]

_removeJobFromArray(search, list) == SelectSeq(list, LAMBDA job : job # search)

_removeJobFromInProcessState(s, job) ==
    [s EXCEPT !.inProgressJobs = _removeJobFromArray(job, @)]

_removeJobFromInQueueState(s, job) ==
    [s EXCEPT !.waitingJobs = _removeJobFromArray(job, @)]

_setUpQueueTimeout(s, job) == [s EXCEPT !.timeouts[job] = "queue"]

\* variant: no execution timer is started
_registerProcessTimeoutNone(s, job) == s

_registerProcessTimeout(s, job) == [s EXCEPT !.timeouts[job] = "process"]

\* variant: the job is only looked for in the waiting list
_cleanupWaitingOnly(s, job) ==
    _removeJobFromInQueueState(_clearTimeout(s, job), job)

_cleanup(s, job) ==
    LET s1 == _clearTimeout(s, job)
    IN  IF s1.processStartedAt[job]
        THEN _removeJobFromInProcessState(s1, job)
        ELSE _removeJobFromInQueueState(s1, job)

\* job.process() is invoked: it either throws synchronously or returns a
\* promise that is pending.
_processJob(s, job) == [s EXCEPT !.processState[job] = "pending"]

\* _processQueue from "this._processing = true" up to the emit of
\* process.started: job is taken out of the waiting list (rest is what
\* remains) and listed as in progress.  The result is the state in which the
\* listeners of process.started run.
started(s, job, rest) ==
    LET s1 == [s EXCEPT !.processing = TRUE, !.waitingJobs = rest]
        s2 == _clearTimeout(s1, job)
        s3 == [s2 EXCEPT !.inProgressJobs = Append(@, job)]
        s4 == _registerProcessTimeout(s3, job)
        s5 == [s4 EXCEPT !.processStartedAt[job] = TRUE]
    IN  [emit(s5, job, "process.started",
              EventData({job}, {"addedToTheQueueAt"}, "none"))
            EXCEPT !.startOrder = Append(@, job)]

\* _processQueue from the call of _processJob on, s being the state left by
\* the listeners of process.started
finishStart(s, job, throws) ==
    LET s7 == IF throws
              THEN _removeJobFromInProcessState(
                      reject(emit([s EXCEPT !.processState[job] = "threw"],
                                  job, "process.failure",
                                  EventData({job}, {"addedToTheQueueAt"},
                                            Thrown)),
                             job, Thrown),
                      job)
              ELSE _processJob(s, job)
    IN  [s7 EXCEPT !.processing = FALSE]

\* _processQueue from "this._processing = true" on: job is taken out of the
\* waiting list (rest is what remains) and started
startJob(s, job, rest, throws) ==
    finishStart(started(s, job, rest), job, throws)

\* variant: this._waitingJobs.pop()
startLastJob(s, throws) ==
    startJob(s, s.waitingJobs[Len(s.waitingJobs)],
             SubSeq(s.waitingJobs, 1, Len(s.waitingJobs) - 1), throws)

\* this._waitingJobs.shift()
startNextJob(s, throws) ==
    startJob(s, Head(s.waitingJobs), Tail(s.waitingJobs), throws)

\* variant: the concurrency gate compares with > instead of >=
_processQueueOffByOne(s, throws) ==
    IF Len(s.inProgressJobs) > s.concurrency THEN s
    ELSE IF Len(s.waitingJobs) = 0 THEN s
    ELSE IF s.processing THEN s
    ELSE startNextJob(s, throws)

\* variant: the _processing flag is not looked at
_processQueueNoLock(s, throws) ==
    IF Len(s.inProgressJobs) >= s.concurrency THEN s
    ELSE IF Len(s.waitingJobs) = 0 THEN s
    ELSE startNextJob(s, throws)

_processQueue(s, throws) ==
    IF Len(s.inProgressJobs) >= s.concurrency THEN s
    ELSE IF Len(s.waitingJobs) = 0 THEN s
    ELSE IF s.processing THEN s
    ELSE startNextJob(s, throws)

\* variant: the queue.full branch does not return
pushWithoutReturn(s, job, throws) ==
    LET s0 == [s EXCEPT !.promise[job] = "pending"]
        s1 == IF isQueueFull(s0)
              THEN reject(emit(s0, job, "queue.full", EventData({job}, {}, "none")),
                          job, QueueFull)
              ELSE s0
        s2 == [s1 EXCEPT !.addedToTheQueueAt[job] = TRUE]
        s3 == _setUpQueueTimeout(s2, job)
        s4 == [s3 EXCEPT !.waitingJobs = Append(@, job)]
        s5 == emit(s4, job, "queue.new", EventData({job}, {}, "none"))
    IN  _processQueue(s5, throws)

\* push(job) of a job that is admitted, up to the call of _processQueue
enqueue(s, job) ==
    LET s1 == [s EXCEPT !.addedToTheQueueAt[job] = TRUE]
        s2 == _setUpQueueTimeout(s1, job)
        s3 == [s2 EXCEPT !.waitingJobs = Append(@, job)]
    IN  emit(s3, job, "queue.new", EventData({job}, {}, "none"))

\* push(job): the executor of the promise push returns
push(s, job, throws) ==
    LET s0 == [s EXCEPT !.promise[job] = "pending"]
    IN  IF isQueueFull(s0)
        THEN reject(emit(s0, job, "queue.full", EventData({job}, {}, "none")),
                          job, QueueFull)
        ELSE _processQueue(enqueue(s0, job), throws)

InWaiting(job) == \E i \in 1..Len(waitingJobs) : waitingJobs[i] = job

InProgress(job) == \E i \in 1..Len(inProgressJobs) : inProgressJobs[i] = job

HasEvent(job, name) == \E i \in 1..Len(emitted[job]) : emitted[job][i] = name

\* position of job in a sequence without repetitions, 0 if absent
Pos(seq, job) ==
    IF \E i \in 1..Len(seq) : seq[i] = job
    THEN CHOOSE i \in 1..Len(seq) : seq[i] = job
    ELSE 0

\* ----------------------------------------------------------- the Renderer
\* One Renderer and the browser it launches.  Its callers (QueueItem.process
\* and QueueItem.cancel) call articleToPdf once and abortRender at any time;
\* puppeteer and the browser subprocess decide when the launch, the page
\* operations and browser.close() settle and when the subprocess exits.

\* number of abortRender() calls on the Renderer
MaxAborts == 2

Aborts == 1..MaxAborts

\* the Renderer after its constructor, before any call
RendererConstructed ==
    [browser |-> FALSE,         \* this._browser holds a browser
     renderAborted |-> FALSE,   \* this._renderAborted
     chain |-> "idle",          \* position in the promise chain of articleToPdf
     render |-> "none",         \* the promise articleToPdf returns
     childProcess |-> "none",   \* the browser subprocess
     connected |-> FALSE,       \* the connection to the browser is open
     closeOp |-> "none",        \* browser.close()
     closePromise |-> "none",   \* closePromise of _closeBrowser
     closeTimer |-> FALSE,      \* the timer of .timeout(CLOSE_TIMEOUT)
     closeOwner |-> "none",     \* whose _closeBrowser call closes the browser
     closeAbort |-> 0,          \* ... and which abortRender call, if any
     killSent |-> FALSE,        \* childProcess.kill('SIGKILL') was called
     error |-> "none",          \* the error the .catch of the chain got
     url |-> {},                \* the url articleToPdf was called with
     request |-> {},            \* the last intercepted request, as handled
     response |-> {},           \* what page.goto resolved with
     abortCalls |-> 0,
     aborts |-> [i \in Aborts |-> "none"]]   \* promises abortRender returned

\* resolve / reject of the promise articleToPdf returns
settleRender(r, outcome) ==
    IF r.render = "pending" THEN [r EXCEPT !.render = outcome] ELSE r

\* browser.on('disconnected'): the connection to the browser has dropped
disconnected(r) ==
    IF r.connected
    THEN LET r1 == [r EXCEPT !.connected = FALSE]
         IN  IF r1.renderAborted
             THEN settleRender(r1, ProcessingCancelled)
             ELSE r1
    ELSE r

\* variant: the .catch of the chain rejects whether or not the render was
\* aborted
closeResolvedAlwaysRejects(r, owner, i) ==
    IF owner = "abort" THEN [r EXCEPT !.aborts[i] = "resolved"]
    ELSE IF owner = "pdf"
         THEN [settleRender(r, "resolved") EXCEPT !.chain = "done"]
    ELSE [settleRender(r, r.error) EXCEPT !.chain = "done"]

\* the promise returned by a _closeBrowser call resolves: for abortRender the
\* promise it returned, for articleToPdf the .finally of its last two steps
closeResolved(r, owner, i) ==
    IF owner = "abort" THEN [r EXCEPT !.aborts[i] = "resolved"]
    ELSE IF owner = "pdf"
         THEN [settleRender(r, "resolved") EXCEPT !.chain = "done"]
    ELSE IF r.renderAborted THEN [r EXCEPT !.chain = "done"]
    ELSE [settleRender(r, r.error) EXCEPT !.chain = "done"]

\* variant: the promise of _closeBrowser resolves as soon as browser.close()
\* has been called
_closeBrowserNoWait(r, owner, i) ==
    IF r.browser
    THEN closeResolved([r EXCEPT !.browser = FALSE, !.closeOp = "pending",
                                 !.closePromise = "pending",
                                 !.closeTimer = TRUE,
                                 !.closeOwner = owner, !.closeAbort = i],
                       owner, i)
    ELSE closeResolved(r, owner, i)

\* variant: this._browser is not cleared
_closeBrowserKeepsHandle(r, owner, i) ==
    IF r.browser
    THEN [r EXCEPT !.closeOp = "pending",
                   !.closePromise = "pending", !.closeTimer = TRUE,
                   !.closeOwner = owner, !.closeAbort = i]
    ELSE closeResolved(r, owner, i)

\* variant: browser.close() is awaited without a timeout
_closeBrowserNoTimeout(r, owner, i) ==
    IF r.browser
    THEN [r EXCEPT !.browser = FALSE, !.closeOp = "pending",
                   !.closePromise = "pending", !.closeTimer = FALSE,
                   !.closeOwner = owner, !.closeAbort = i]
    ELSE closeResolved(r, owner, i)

_closeBrowser(r, owner, i) ==
    IF r.browser
    THEN [r EXCEPT !.browser = FALSE, !.closeOp = "pending",
                   !.closePromise = "pending", !.closeTimer = TRUE,
                   !.closeOwner = owner, !.closeAbort = i]
    ELSE closeResolved(r, owner, i)

\* try { childProcess.kill('SIGKILL') } catch (err) {}: a subprocess that is
\* gone already is the one case in which the call fails
kill(r) ==
    LET r1 == [r EXCEPT !.killSent = TRUE]
    IN  IF r1.childProcess = "alive"
        THEN disconnected([r1 EXCEPT !.childProcess = "killed"])
        ELSE r1

\* closePromise settles as outcome; its .finally(resolve) runs
closeSettled(r, outcome) ==
    closeResolved([r EXCEPT !.closePromise = outcome, !.closeTimer = FALSE],
                  r.closeOwner, r.closeAbort)

abortRender(r) ==
    LET i == r.abortCalls + 1
    IN  _closeBrowser([r EXCEPT !.renderAborted = TRUE, !.abortCalls = i,
                                !.aborts[i] = "pending"], "abort", i)

\* articleToPdf up to puppeteer.launch; a URL that is not allowed throws
articleToPdf(r, isAllowed) ==
    IF isAllowed
    THEN [r EXCEPT !.chain = "launch", !.render = "pending"]
    ELSE [r EXCEPT !.chain = "threw"]

\* the steps of the chain that use the browser, in order
nextStep(step) ==
    CASE step = "newPage" -> "goto"
      [] step = "goto" -> "pdf"
      [] step = "pdf" -> "close"

BrowserSteps == {"newPage", "goto", "pdf"}

\* what a step of the chain can fail with: an error of puppeteer, and after
\* page.goto the errors thrown for a missing or not ok response
StepErrors(step) ==
    IF step = "goto"
    THEN {"ProtocolError", PuppeteerMalformedResponseError, NavigationError}
    ELSE {"ProtocolError"}

\* the errors the .catch of the chain can get
RenderErrors ==
    {"LaunchError", "ProtocolError", PuppeteerMalformedResponseError,
     NavigationError}

ArticleToPdf ==
    /\ renderer.chain = "idle"
    /\ \E isAllowed \in BOOLEAN : renderer' = articleToPdf(renderer, isAllowed)
    /\ UNCHANGED <<queueVars, glue>>

\* puppeteer.launch resolves: this._browser = browser
LaunchResolves ==
    /\ renderer.chain = "launch"
    /\ renderer' = [renderer EXCEPT !.browser = TRUE, !.childProcess = "alive",
                                    !.connected = TRUE, !.chain = "newPage"]
    /\ UNCHANGED <<queueVars, glue>>

\* puppeteer.launch rejects: the .catch of the chain runs
LaunchRejects ==
    /\ renderer.chain = "launch"
    /\ renderer' = _closeBrowser([renderer EXCEPT !.chain = "close",
                                                  !.error = "LaunchError"],
                                 "catch", 0)
    /\ UNCHANGED <<queueVars, glue>>

\* a step of the chain succeeds; after page.pdf the browser is closed and
\* the promise resolved with the pdf
StepSucceeds ==
    /\ renderer.chain \in BrowserSteps
    /\ renderer.connected
    /\ LET r == [renderer EXCEPT !.chain = nextStep(@)]
       IN  renderer' = IF r.chain = "close" THEN _closeBrowser(r, "pdf", 0) ELSE r
    /\ UNCHANGED <<queueVars, glue>>

\* a step of the chain fails (navigation error, target closed, ...)
StepFails ==
    /\ renderer.chain \in BrowserSteps
    /\ \E error \in StepErrors(renderer.chain) :
          renderer' = _closeBrowser([renderer EXCEPT !.chain = "close",
                                                    !.error = error],
                                   "catch", 0)
    /\ UNCHANGED <<queueVars, glue>>

AbortRender ==
    /\ renderer.abortCalls < MaxAborts
    /\ renderer' = abortRender(renderer)
    /\ UNCHANGED <<queueVars, glue>>

\* browser.close() resolves: the browser has shut down
CloseCompletes ==
    /\ renderer.closeOp = "pending"
    /\ LET r1 == [renderer EXCEPT !.closeOp = "resolved",
                      !.childProcess = IF @ = "alive" THEN "exited" ELSE @]
           r2 == disconnected(r1)
       IN  renderer' = IF r2.closePromise = "pending"
                       THEN closeSettled(r2, "resolved")
                       ELSE r2
    /\ UNCHANGED <<queueVars, glue>>

\* browser.close() rejects: the rejection handler kills the subprocess
CloseRejects ==
    /\ renderer.closeOp = "pending"
    /\ LET r1 == [renderer EXCEPT !.closeOp = "rejected"]
       IN  renderer' = IF r1.closePromise = "pending"
                       THEN closeSettled(kill(r1), "killed")
                       ELSE r1
    /\ UNCHANGED <<queueVars, glue>>

\* CLOSE_TIMEOUT passes before browser.close() settles
CloseTimeout ==
    /\ renderer.closeTimer
    /\ renderer.closePromise = "pending"
    /\ renderer' = closeSettled(kill(renderer), "killed")
    /\ UNCHANGED <<queueVars, glue>>

\* variant: the exit handler does not cancel closePromise
ProcessExitsNoCancel ==
    /\ renderer.childProcess = "alive"
    /\ renderer' = disconnected([renderer EXCEPT !.childProcess = "exited"])
    /\ UNCHANGED <<queueVars, glue>>

\* the subprocess exits by itself; childProcess.on('exit') of a
\* _closeBrowser call in progress cancels closePromise
ProcessExits ==
    /\ renderer.childProcess = "alive"
    /\ LET r1 == disconnected([renderer EXCEPT !.childProcess = "exited"])
       IN  renderer' = IF r1.closePromise = "pending"
                       THEN closeSettled(r1, "cancelled")
                       ELSE r1
    /\ UNCHANGED <<queueVars, glue>>

RendererNext ==
    \/ ArticleToPdf
    \/ LaunchResolves
    \/ LaunchRejects
    \/ StepSucceeds
    \/ StepFails
    \/ AbortRender
    \/ CloseCompletes
    \/ CloseRejects
    \/ CloseTimeout
    \/ ProcessExits

\* ------------------------------------------------------- the request glue
\* The route GET /:title/:format?/:type? and its handleError.  Each request
\* pushes a job and answers when the promise of the job settles; the queue
\* decides how it settles.

\* number of requests the route receives
NumRequests == 2

Requests == 1..NumRequests

\* response.status() of a response that is not ok
HttpCodes == {400, 404, 500, 503}

\* what the promise of a request settles with: an error (httpCode is 0 for
\* every kind but NavigationError) or the result of the render
Settled(kind, httpCode) == [kind |-> kind, httpCode |-> httpCode]

Errors ==
    {Settled(k, 0) : k \in {QueueFull, QueueTimeout, JobTimeout,
                            ProcessingCancelled,
                            PuppeteerMalformedResponseError, ForbiddenError,
                            Failure, Thrown}}
    \cup {Settled(NavigationError, c) : c \in HttpCodes}

\* pdfDetails with and without a buffer
Results == {Settled("pdf", 0), Settled("pdfWithoutBuffer", 0)}

\* app.conf.render_queue_timeout in seconds; 0 stands for a configuration
\* that does not set it
QueueTimeoutSeconds == {0, 30, 60}

\* the express response: nothing is written yet, statusCode has its default
Response(sent, status, headers, body, errorObject, logged) ==
    [sent |-> sent, status |-> status, headers |-> headers, body |-> body,
     errorObject |-> errorObject, logged |-> logged]

NotAnswered == Response(FALSE, 200, {}, "none", FALSE, "none")

\* res.status(errorObject.status).send(errorObject) after the headers set
send(status, detail, headers, logged) ==
    Response(TRUE, status, headers, detail, TRUE, logged)

\* variant: a NavigationError is answered with 500 whatever its httpCode
handleErrorNo404(error, render_queue_timeout) ==
    LET retryAfter == IF render_queue_timeout # 0 THEN render_queue_timeout
                                                  ELSE 60
    IN  IF error.kind = NavigationError
        THEN send(500, "Internal Server Error", {},
                  IF error.httpCode >= 500 THEN "error" ELSE "none")
        ELSE IF error.kind = ProcessingCancelled
        THEN Response(TRUE, 200, {}, "none", FALSE, "none")
        ELSE IF error.kind \in {QueueFull, QueueTimeout}
        THEN send(503, "Queue full. Please try again later",
                  {<<"Retry-After", retryAfter>>}, "none")
        ELSE IF error.kind = JobTimeout
        THEN send(503, "Queue full. Please try again later", {}, "none")
        ELSE send(500, "Internal Server Error", {}, "error")

\* variant: JobTimeout is handled in the branch of QueueFull and QueueTimeout
handleErrorRetryAlways(error, render_queue_timeout) ==
    LET retryAfter == IF render_queue_timeout # 0 THEN render_queue_timeout
                                                  ELSE 60
    IN  IF error.kind = NavigationError
        THEN IF error.httpCode = 404
             THEN send(404, "Article not found", {}, "info")
             ELSE send(500, "Internal Server Error", {},
                       IF error.httpCode >= 500 THEN "error" ELSE "none")
        ELSE IF error.kind = ProcessingCancelled
        THEN Response(TRUE, 200, {}, "none", FALSE, "none")
        ELSE IF error.kind \in {QueueFull, QueueTimeout, JobTimeout}
        THEN send(503, "Queue full. Please try again later",
                  {<<"Retry-After", retryAfter>>}, "none")
        ELSE send(500, "Internal Server Error", {}, "error")

\* handleError(error, title, res, logger): the response it writes
handleError(error, render_queue_timeout) ==
    LET retryAfter == IF render_queue_timeout # 0 THEN render_queue_timeout
                                                  ELSE 60
    IN  IF error.kind = NavigationError
        THEN IF error.httpCode = 404
             THEN send(404, "Article not found", {}, "info")
             ELSE send(500, "Internal Server Error", {},
                       IF error.httpCode >= 500 THEN "error" ELSE "none")
        ELSE IF error.kind = ProcessingCancelled
        THEN Response(TRUE, 200, {}, "none", FALSE, "none")
        ELSE IF error.kind \in {QueueFull, QueueTimeout}
        THEN send(503, "Queue full. Please try again later",
                  {<<"Retry-After", retryAfter>>}, "none")
        ELSE IF error.kind = JobTimeout
        THEN send(503, "Queue full. Please try again later", {}, "none")
        ELSE send(500, "Internal Server Error", {}, "error")

\* the module is loaded, module.exports(appObj) has not been called
GlueLoaded ==
    [mounted |-> FALSE,
     render_queue_timeout |-> 0,
     request |-> [r \in Requests |-> "none"],
     \* the error handleError was called with, kind "none" if it was not
     error |-> [r \in Requests |-> Settled("none", 0)],
     res |-> [r \in Requests |-> NotAnswered]]

\* handleError is called for request r
fail(g, r, error) ==
    [g EXCEPT !.error[r] = error,
              !.res[r] = handleError(error, g.render_queue_timeout),
              !.request[r] = "answered"]

\* the handlers of promise.then(...).catch(...) of request r
answer(g, r, settled) ==
    IF settled.kind = "pdf"
    THEN [g EXCEPT !.res[r] = Response(TRUE, 200, {"content-type",
                                          "content-disposition",
                                          "content-length", "last-modified"},
                                       "pdf", FALSE, "none"),
                   !.request[r] = "answered"]
    ELSE IF settled.kind = "pdfWithoutBuffer"
    THEN fail(g, r, Settled(PuppeteerMalformedResponseError, 0))
    ELSE IF settled.kind = NavigationError
    THEN fail(g, r, Settled(NavigationError, settled.httpCode))
    ELSE fail(g, r, settled)

\* module.exports(appObj): the configuration is read
Mount ==
    /\ ~glue.mounted
    /\ \E seconds \in QueueTimeoutSeconds :
          glue' = [glue EXCEPT !.mounted = TRUE,
                               !.render_queue_timeout = seconds]
    /\ UNCHANGED <<queueVars, renderer>>

\* a request arrives: the queue is full and the route answers at once, or
\* the job is pushed
Request(r) ==
    /\ glue.mounted
    /\ glue.request[r] = "none"
    /\ \E full \in BOOLEAN :
          glue' = IF full
                  THEN fail(glue, r, Settled(QueueFull, 0))
                  ELSE [glue EXCEPT !.request[r] = "pushed"]
    /\ UNCHANGED <<queueVars, renderer>>

\* the promise of the job settles and the handlers of the route run
PromiseSettles(r) ==
    /\ glue.request[r] = "pushed"
    /\ \E settled \in Errors \cup Results : glue' = answer(glue, r, settled)
    /\ UNCHANGED <<queueVars, renderer>>

\* req.on('close'): the client has gone, promise.cancel() is called and no
\* handler of the route runs
RequestClosed(r) ==
    /\ glue.request[r] = "pushed"
    /\ glue' = [glue EXCEPT !.request[r] = "cancelled"]
    /\ UNCHANGED <<queueVars, renderer>>

GlueNext ==
    \/ Mount
    \/ \E r \in Requests : Request(r)
    \/ \E r \in Requests : PromiseSettles(r)
    \/ \E r \in Requests : RequestClosed(r)

TypeOK ==
    /\ concurrency \in 0..(MaxConcurrency + 1)
    /\ maxTaskCount \in 1..(MaxTasks + 1)
    /\ promise \in [Jobs -> PromiseStates]
    /\ timeouts \in [Jobs -> {"none", "queue", "process"}]
    /\ processing \in BOOLEAN
    /\ draining \in BOOLEAN

Init ==
    /\ concurrency \in 0..MaxConcurrency
    /\ maxTaskCount \in 1..MaxTasks
    /\ waitingJobs = <<>>
    /\ inProgressJobs = <<>>
    /\ timeouts = [j \in Jobs |-> "none"]
    /\ processing = FALSE
    /\ addedToTheQueueAt = [j \in Jobs |-> FALSE]
    /\ processStartedAt = [j \in Jobs |-> FALSE]
    /\ promise = [j \in Jobs |-> "none"]
    /\ processState = [j \in Jobs |-> "idle"]
    /\ cancelCalls = [j \in Jobs |-> 0]
    /\ cancelPending = [j \in Jobs |-> {}]
    /\ emitted = [j \in Jobs |-> <<>>]
    /\ payloads = [j \in Jobs |-> <<>>]
    /\ asyncQueue = <<>>
    /\ draining = FALSE
    /\ startOrder = <<>>
    /\ clock = ClockStart
    /\ renderer = RendererConstructed
    /\ glue = GlueLoaded

\* job.cancel().then(continuation): job.cancel() is invoked and returns a
\* promise; the continuation runs once that promise has resolved.
callCancel(s, job, kind) ==
    [s EXCEPT !.cancelCalls[job] = @ + 1,
              !.cancelPending[job] = @ \cup {kind}]

\* variant: the abort event is emitted before job.cancel() is called
_cancelJobEmitsFirst(s, job, state) ==
    callCancel(emit(s, job, IF state = "queue" THEN "queue.abort"
                                               ELSE "process.abort",
                    EventData({job}, {"addedToTheQueueAt"}, "none")),
               job, state)

\* _cancelJob(job, state, reject)
_cancelJob(s, job, state) == callCancel(s, job, state)

\* variant: the filter drops every waiting job
_tryToCancelWaitingJobDropsAll(s, job) ==
    IF \E i \in 1..Len(s.waitingJobs) : s.waitingJobs[i] = job
    THEN _cancelJob([s EXCEPT !.waitingJobs = <<>>], job, "queue")
    ELSE s

_tryToCancelWaitingJob(s, job) ==
    IF \E i \in 1..Len(s.waitingJobs) : s.waitingJobs[i] = job
    THEN _cancelJob(_removeJobFromInQueueState(s, job), job, "queue")
    ELSE s

\* variant: job.cancel() is called but the job keeps its slot
_tryToCancelInProgressJobKeepsSlot(s, job) ==
    IF \E i \in 1..Len(s.inProgressJobs) : s.inProgressJobs[i] = job
    THEN _cancelJob(s, job, "process")
    ELSE s

_tryToCancelInProgressJob(s, job) ==
    IF \E i \in 1..Len(s.inProgressJobs) : s.inProgressJobs[i] = job
    THEN _cancelJob(_removeJobFromInProcessState(s, job), job, "process")
    ELSE s

\* the callback push() registers with onCancel
onCancel(s, job) ==
    LET s1 == _clearTimeout(s, job)
        found == \E i \in 1..Len(s1.waitingJobs) : s1.waitingJobs[i] = job
    IN  IF found
        THEN _tryToCancelWaitingJob(s1, job)
        ELSE _tryToCancelInProgressJob(s1, job)

\* variant: the callback only emits queue.timeout
queueTimeoutCallbackNoReject(s, job) ==
    emit(_clearTimeout(s, job), job, "queue.timeout",
         EventData({job}, {"addedToTheQueueAt"}, "none"))

\* the setTimeout callback of _setUpQueueTimeout
queueTimeoutCallback(s, job) ==
    reject(emit(_clearTimeout(s, job), job, "queue.timeout",
                EventData({job}, {"addedToTheQueueAt"}, "none")),
           job, QueueTimeout)

\* the setTimeout callback of _registerProcessTimeout, up to job.cancel()
processTimeoutCallback(s, job) ==
    callCancel(emit(_clearTimeout(s, job), job, "process.timeout", NoData),
               job, "timeout")

\* the continuations of job.cancel(): in _registerProcessTimeout ("timeout")
\* and in _cancelJob ("queue" / "process")
cancelContinuation(s, job, kind) ==
    IF kind = "timeout"
    THEN reject(_removeJobFromInProcessState(s, job), job, JobTimeout)
    ELSE reject(emit(s, job, IF kind = "queue" THEN "queue.abort"
                                               ELSE "process.abort",
                     EventData({job}, {"addedToTheQueueAt"}, "none")),
                job, ProcessingCancelled)

\* variant: the rejection handler reports the failure and resolves
processHandlerSwallows(s, job, outcome) ==
    LET stamps == {"addedToTheQueueAt", "processStartedAt"}
        s1 == IF outcome = "resolved"
              THEN resolve(emit(s, job, "process.success",
                                EventData({job}, stamps, "none")), job)
              ELSE resolve(emit(s, job, "process.failure",
                                EventData({job}, stamps, outcome)), job)
    IN  schedule(s1, Cont("processFinally", job, "none"))

\* variant: the rejection handler emits nothing for ProcessingCancelled
processHandlerSkipsCancelled(s, job, outcome) ==
    LET stamps == {"addedToTheQueueAt", "processStartedAt"}
        s1 == IF outcome = "resolved"
              THEN resolve(emit(s, job, "process.success",
                                EventData({job}, stamps, "none")), job)
              ELSE IF outcome = ProcessingCancelled
                   THEN reject(s, job, outcome)
                   ELSE reject(emit(s, job, "process.failure",
                                    EventData({job}, stamps, outcome)),
                               job, outcome)
    IN  schedule(s1, Cont("processFinally", job, "none"))

\* the two handlers _processJob attaches to job.process() with .then
processHandler(s, job, outcome) ==
    LET stamps == {"addedToTheQueueAt", "processStartedAt"}
        s1 == IF outcome = "resolved"
              THEN resolve(emit(s, job, "process.success",
                                EventData({job}, stamps, "none")), job)
              ELSE reject(emit(s, job, "process.failure",
                               EventData({job}, stamps, outcome)),
                          job, outcome)
    IN  schedule(s1, Cont("processFinally", job, "none"))

\* the .finally handler of _processJob
processFinally(s, job) ==
    _removeJobFromInProcessState(_clearTimeout(s, job), job)

\* variant: the .finally handler only cleans up
pushFinallyNoAdvance(s, job, throws) == _cleanup(s, job)

\* the .finally handler of push()
pushFinally(s, job, throws) == _processQueue(_cleanup(s, job), throws)

\* variant: cancel() does not look at the state of the promise
cancelPromiseAlways(s, job) ==
    schedule(schedule([s EXCEPT !.promise[job] = "cancelled"],
                      Cont("onCancel", job, "none")),
             Cont("finally", job, "none"))

\* promise.cancel() by the caller.  On a promise that is still pending: the
\* promise is cancelled, the onCancel hook and then the finally handler are
\* scheduled.  cancel() on a promise that is not pending does nothing.
cancelPromise(s, job) ==
    IF s.promise[job] = "pending"
    THEN schedule(schedule([s EXCEPT !.promise[job] = "cancelled"],
                           Cont("onCancel", job, "none")),
                  Cont("finally", job, "none"))
    ELSE s

\* ------------------------------------------------ timer and I/O callbacks

\* A caller submits job: queue.push(job).  Jobs are numbered in the order in
\* which they are submitted.
Submit(job) ==
    /\ ~draining
    /\ promise[job] = "none"
    /\ \A k \in Jobs : k < job => promise[k] # "none"
    /\ \E throws \in BOOLEAN : Apply(push(State, job, throws))
    /\ UNCHANGED draining

\* The timers and the caller's callbacks below settle or cancel the push
\* promise outside a drain: its finally handler runs in the next drain, and
\* other timers and callbacks that are ready run before that drain starts.
QueueTimeoutFire(job) ==
    /\ ~draining
    /\ timeouts[job] = "queue"
    /\ Apply(queueTimeoutCallback(State, job))
    /\ UNCHANGED draining

ProcessTimeoutFire(job) ==
    /\ ~draining
    /\ timeouts[job] = "process"
    /\ Apply(processTimeoutCallback(State, job))
    /\ UNCHANGED draining

\* the outcomes job.process() can settle with: a result, an error of its
\* own, or ProcessingCancelled once the job has been told to cancel
ProcessOutcomes(job) ==
    {"resolved", Failure} \cup
    (IF cancelCalls[job] > 0 THEN {ProcessingCancelled} ELSE {})

\* job.process() settles.  Its handlers are continuations; nothing of the
\* queue can observe the settlement before they run, so the drain that runs
\* them starts at once.
ProcessSettles(job) ==
    /\ ~draining
    /\ processState[job] = "pending"
    /\ \E outcome \in ProcessOutcomes(job) :
          Apply(schedule([State EXCEPT !.processState[job] =
                              IF outcome = "resolved" THEN "fulfilled"
                                                      ELSE "rejected"],
                         Cont("processed", job, outcome)))
    /\ draining' = TRUE

\* a promise returned by job.cancel() resolves; as for ProcessSettles the
\* drain that runs its continuation starts at once.
CancelResolves(job) ==
    /\ ~draining
    /\ \E kind \in cancelPending[job] :
          Apply(schedule([State EXCEPT !.cancelPending[job] = @ \ {kind}],
                         Cont("cancelled", job, kind)))
    /\ draining' = TRUE

ClientCancel(job) ==
    /\ ~draining
    /\ promise[job] # "none"
    /\ Apply(cancelPromise(State, job))
    /\ UNCHANGED draining

\* ------------------------------------ continuations run by the drain loop

Popped == [State EXCEPT !.asyncQueue = Tail(@)]

Run(kind) == asyncQueue # <<>> /\ Head(asyncQueue).kind = kind

Drained(s) == draining' = (s.asyncQueue # <<>>)

RunPushFinally ==
    /\ Run("finally")
    /\ \E throws \in BOOLEAN :
          LET s == pushFinally(Popped, Head(asyncQueue).job, throws)
          IN  Apply(s) /\ Drained(s)

RunOnCancel ==
    /\ Run("onCancel")
    /\ LET s == onCancel(Popped, Head(asyncQueue).job)
       IN  Apply(s) /\ Drained(s)

RunProcessHandler ==
    /\ Run("processed")
    /\ LET s == processHandler(Popped, Head(asyncQueue).job,
                               Head(asyncQueue).arg)
       IN  Apply(s) /\ Drained(s)

RunProcessFinally ==
    /\ Run("processFinally")
    /\ LET s == processFinally(Popped, Head(asyncQueue).job)
       IN  Apply(s) /\ Drained(s)

RunCancelContinuation ==
    /\ Run("cancelled")
    /\ LET s == cancelContinuation(Popped, Head(asyncQueue).job,
                                   Head(asyncQueue).arg)
       IN  Apply(s) /\ Drained(s)

Next ==
    \/ \E job \in Jobs : Submit(job)
    \/ \E job \in Jobs : QueueTimeoutFire(job)
    \/ \E job \in Jobs : ProcessTimeoutFire(job)
    \/ \E job \in Jobs : ProcessSettles(job)
    \/ \E job \in Jobs : CancelResolves(job)
    \/ \E job \in Jobs : ClientCancel(job)
    \/ RunPushFinally
    \/ RunOnCancel
    \/ RunProcessHandler
    \/ RunProcessFinally
    \/ RunCancelContinuation

Spec == Init /\ [][Next]_vars

\* Timers that are armed eventually fire, a promise returned by job.cancel()
\* eventually resolves, and the promise library runs every continuation it
\* has scheduled.  Nothing is assumed about job.process() or the callers.
Fairness ==
    /\ \A job \in Jobs : WF_vars(QueueTimeoutFire(job))
    /\ \A job \in Jobs : WF_vars(ProcessTimeoutFire(job))
    /\ \A job \in Jobs : WF_vars(CancelResolves(job))
    /\ WF_vars(RunPushFinally)
    /\ WF_vars(RunOnCancel)
    /\ WF_vars(RunProcessHandler)
    /\ WF_vars(RunProcessFinally)
    /\ WF_vars(RunCancelContinuation)

\* The runs checked for progress: the same callbacks, at most LiveJobs jobs.
LiveNext ==
    \/ \E job \in {j \in Jobs : j <= LiveJobs} : Submit(job)
    \/ \E job \in Jobs : QueueTimeoutFire(job)
    \/ \E job \in Jobs : ProcessTimeoutFire(job)
    \/ \E job \in Jobs : ProcessSettles(job)
    \/ \E job \in Jobs : CancelResolves(job)
    \/ \E job \in Jobs : ClientCancel(job)
    \/ RunPushFinally
    \/ RunOnCancel
    \/ RunProcessHandler
    \/ RunProcessFinally
    \/ RunCancelContinuation

LiveSpec == Init /\ [][LiveNext]_vars /\ Fairness

\* The Renderer on its own, next to an idle queue.  The timer of
\* .timeout(CLOSE_TIMEOUT) fires if it stays armed; nothing is assumed about
\* puppeteer, the browser or the callers.
RendererInit == Init /\ concurrency = 1 /\ maxTaskCount = 1

RendererSpec ==
    RendererInit /\ [][RendererNext]_vars /\ WF_vars(CloseTimeout)

\* The route on its own, next to an idle queue and Renderer.
GlueSpec == RendererInit /\ [][GlueNext]_vars

\* ------------------------------------------------------------ properties

\* C1: in every reachable state the number of running jobs is at most
\* concurrency; with concurrency = 0 nothing is ever running.
C1_RunningAtMostConcurrency ==
    /\ Len(inProgressJobs) <= concurrency
    /\ concurrency = 0 => inProgressJobs = <<>>

\* C1 witness: both slots of a queue with concurrency 2 are taken and a
\* third job waits.
C1_Witness ==
    /\ concurrency = 2
    /\ Len(inProgressJobs) = 2
    /\ Len(waitingJobs) = 1

TimedOutOrCancelledWaiting(job) ==
    \/ HasEvent(job, "queue.timeout")
    \/ promise[job] = "cancelled" /\ ~processStartedAt[job]

\* C4: jobs are started in the order of their admission: if b has been
\* started and a was admitted before b and neither timed out nor was
\* cancelled while waiting, then a was started before b.  With concurrency 1
\* the promises therefore resolve in admission order.
C4_FifoPromotion ==
    \A a, b \in Jobs :
        (a < b /\ addedToTheQueueAt[a] /\ addedToTheQueueAt[b])
        => /\ (processStartedAt[b] /\ ~TimedOutOrCancelledWaiting(a))
                => /\ Pos(startOrder, a) > 0
                   /\ Pos(startOrder, a) < Pos(startOrder, b)
           /\ (concurrency = 1 /\ promise[b] = "resolved")
                => promise[a] # "pending"

\* C4 witness: with concurrency 1 three jobs were admitted, started in the
\* order of admission and all resolved.
C4_Witness ==
    /\ concurrency = 1
    /\ startOrder = <<1, 2, 3>>
    /\ \A j \in 1..3 : promise[j] = "resolved"

Gone(job) ==
    /\ promise[job] # "pending"
    /\ ~InWaiting(job)
    /\ ~InProgress(job)

\* C6: if timers fire and job.cancel() resolves, every admitted job's promise
\* eventually leaves the pending state and the job leaves both lists for
\* good, whatever process() does.  When the promise is settled for a job that
\* was never started the outcome is QueueTimeout; when it is settled while
\* process() is still running the outcome is JobTimeout.  (A promise the
\* caller cancelled counts as no longer pending.)
C6_EveryAdmittedJobSettles ==
    /\ \A j \in Jobs : addedToTheQueueAt[j] ~> Gone(j)
    /\ [][\A j \in Jobs :
            (addedToTheQueueAt[j] /\ Gone(j)) => Gone(j)']_vars
    /\ [][\A j \in Jobs :
            (/\ promise[j] = "pending"
             /\ promise'[j] \notin {"pending", "cancelled"})
            => /\ ~processStartedAt'[j] => promise'[j] = QueueTimeout
               /\ (processState[j] = "pending" /\ processState'[j] = "pending")
                     => promise'[j] = JobTimeout
         ]_vars

\* C6 witness: one job was rejected with JobTimeout while its process() is
\* still running, another was rejected with QueueTimeout without having been
\* started, and both have left the queue.
C6_Witness ==
    \E j, k \in Jobs :
        /\ promise[j] = JobTimeout
        /\ processState[j] = "pending"
        /\ Gone(j)
        /\ promise[k] = QueueTimeout
        /\ ~processStartedAt[k]
        /\ Gone(k)
        /\ asyncQueue = <<>>

\* C7: after the execution timeout of a running job has fired and until the
\* promise of the job.cancel() it made resolves, the job is still in the
\* running list and its promise is still pending (callers that cancel the
\* promise themselves aside).
C7_KeepsSlotUntilCancelResolves ==
    \A j \in Jobs :
        (/\ HasEvent(j, "process.timeout")
         /\ "timeout" \in cancelPending[j]
         /\ processState[j] # "threw"
         /\ promise[j] # "cancelled")
        => InProgress(j) /\ promise[j] = "pending"

\* C8: once the execution timeout of a job has fired while its promise was
\* pending, the promise is never resolved and never rejected with anything
\* but JobTimeout (callers that cancel the promise themselves aside).
C8_TimeoutWins ==
    [][\A j \in Jobs :
          (HasEvent(j, "process.timeout") /\ promise[j] = "pending")
          => promise'[j] \in {"pending", "cancelled", JobTimeout}
      ]_vars

\* C9: a job whose queue timeout has fired is never started: process() is
\* never invoked on it and it is never in the running list.
C9_TimedOutNeverStarted ==
    \A j \in Jobs :
        HasEvent(j, "queue.timeout")
        => /\ ~processStartedAt[j]
           /\ processState[j] = "idle"
           /\ ~InProgress(j)

\* C10: once the cancellation of a promise by its caller has been carried
\* out (job.cancel() has resolved and queue.abort or process.abort has been
\* emitted) the promise is rejected with ProcessingCancelled.
C10_CancelledRejectsWithProcessingCancelled ==
    \A j \in Jobs :
        (HasEvent(j, "queue.abort") \/ HasEvent(j, "process.abort"))
        => promise[j] = ProcessingCancelled

\* the step is the onCancel hook of job, run by the promise library
OnCancelStep(job) ==
    /\ Run("onCancel")
    /\ Head(asyncQueue).job = job
    /\ asyncQueue' = Tail(asyncQueue)

\* the step leaves every job other than job as it was
OthersUntouched(job) ==
    \A k \in Jobs \ {job} :
        /\ timeouts'[k] = timeouts[k]
        /\ promise'[k] = promise[k]
        /\ processState'[k] = processState[k]
        /\ processStartedAt'[k] = processStartedAt[k]
        /\ cancelCalls'[k] = cancelCalls[k]
        /\ cancelPending'[k] = cancelPending[k]
        /\ emitted'[k] = emitted[k]
        /\ payloads'[k] = payloads[k]

\* C11: the cancellation of a job that is waiting removes exactly that job
\* from the waiting list, clears its timer and calls its cancel() in one
\* step; the running list, the order of the other waiting jobs and every
\* other job are left as they were.
C11_CancelWaitingFrame ==
    [][\A j \in Jobs :
          (OnCancelStep(j) /\ InWaiting(j))
          => /\ waitingJobs' = _removeJobFromArray(j, waitingJobs)
             /\ Len(waitingJobs') = Len(waitingJobs) - 1
             /\ inProgressJobs' = inProgressJobs
             /\ timeouts'[j] = "none"
             /\ cancelCalls'[j] = cancelCalls[j] + 1
             /\ "queue" \in cancelPending'[j]
             /\ startOrder' = startOrder
             /\ OthersUntouched(j)
      ]_vars

\* C11 witness: a job was cancelled while it waited behind a running job and
\* in front of another waiting job; it never started, and the other two jobs
\* resolved.
C11_Witness ==
    /\ promise[2] = "cancelled"
    /\ HasEvent(2, "queue.abort")
    /\ ~processStartedAt[2]
    /\ cancelCalls[2] = 1
    /\ promise[1] = "resolved"
    /\ promise[3] = "resolved"
    /\ startOrder = <<1, 3>>

\* C12: the cancellation of a job that is running clears its timer, removes
\* it from the running list and calls its cancel() in one step, so the job
\* has left the list before cancel() has resolved; the other running jobs,
\* the waiting list and every other job are left as they were.
C12_CancelRunningFrame ==
    [][\A j \in Jobs :
          (OnCancelStep(j) /\ ~InWaiting(j) /\ InProgress(j))
          => /\ inProgressJobs' = _removeJobFromArray(j, inProgressJobs)
             /\ Len(inProgressJobs') = Len(inProgressJobs) - 1
             /\ waitingJobs' = waitingJobs
             /\ timeouts'[j] = "none"
             /\ cancelCalls'[j] = cancelCalls[j] + 1
             /\ "process" \in cancelPending'[j]
             /\ startOrder' = startOrder
             /\ OthersUntouched(j)
      ]_vars

\* C12 witness: of two jobs running side by side one was cancelled and left
\* the running list while its cancel() is unresolved; the other resolved
\* with its own result.
C12_Witness ==
    \E j, k \in Jobs :
        /\ j # k
        /\ concurrency = 2
        /\ promise[j] = "cancelled"
        /\ processStartedAt[j]
        /\ ~InProgress(j)
        /\ "process" \in cancelPending[j]
        /\ processStartedAt[k]
        /\ promise[k] = "resolved"
        /\ HasEvent(k, "process.success")

InFlight(job) ==
    /\ processState[job] = "pending"
    /\ cancelCalls[job] = Cardinality(cancelPending[job])

\* C14: at any time at most concurrency renders are in flight.
C14_InFlightAtMostConcurrency ==
    Cardinality({j \in Jobs : InFlight(j)}) <= concurrency

\* nothing but its own process() has acted on the job: no timer of it has
\* fired and neither the queue nor the caller has cancelled it
Undisturbed(job) ==
    /\ cancelCalls[job] = 0
    /\ promise[job] # "cancelled"
    /\ ~HasEvent(job, "queue.timeout")
    /\ ~HasEvent(job, "process.timeout")

\* the promise library has nothing left to run
Quiescent == asyncQueue = <<>>

\* C17: if process() of a running job throws, or rejects and its rejection
\* handler has run, and no timeout or cancellation has touched the job, the
\* promise of the job is rejected with that error.  Once the handlers have
\* run the job is not in the running list, and the queue has gone on: no
\* job waits while a slot is free.
C17_ErrorPropagates ==
    /\ \A j \in Jobs :
          Undisturbed(j)
          => /\ processState[j] = "threw" => promise[j] = Thrown
             /\ (processState[j] = "rejected" /\ HasEvent(j, "process.failure"))
                   => promise[j] = Failure
    /\ Quiescent
       => /\ \A j \in Jobs :
                processState[j] \in {"threw", "rejected"} => ~InProgress(j)
          /\ waitingJobs # <<>> => Len(inProgressJobs) >= concurrency

\* C17 witness: the first job failed and was rejected with its error, and
\* the job that waited behind it was started after that and resolved.
C17_Witness ==
    /\ concurrency = 1
    /\ processState[1] = "rejected"
    /\ promise[1] = Failure
    /\ Undisturbed(1)
    /\ Gone(1)
    /\ startOrder = <<1, 2>>
    /\ addedToTheQueueAt[2]
    /\ promise[2] = "resolved"
    /\ Quiescent

\* number of finally handlers of job's promise that are scheduled
FinallyQueued(job) ==
    Cardinality({i \in 1..Len(asyncQueue) :
                    /\ asyncQueue[i].kind = "finally"
                    /\ asyncQueue[i].job = job})

\* the promise of job has settled and its finally handler has run: what the
\* caller's own handlers, which come after it, get to see
Observable(job) ==
    /\ promise[job] \notin {"none", "pending"}
    /\ FinallyQueued(job) = 0

IsPrefix(a, b) == Len(a) <= Len(b) /\ SubSeq(b, 1, Len(a)) = a

\* the step is the finally handler of job's promise
FinallyStep(job) ==
    /\ Run("finally")
    /\ Head(asyncQueue).job = job
    /\ ~IsPrefix(asyncQueue, asyncQueue')

C19_NoTimerOutlivesItsJob ==
    \A j \in Jobs :
        /\ timeouts[j] = "queue" => InWaiting(j)
        /\ timeouts[j] = "process" => InProgress(j)

\* C20 as claimed: every waiting job has an armed queue timeout and every
\* running job has an armed execution timeout, also while a job whose
\* execution timeout has fired is still in the running list.
C20_EveryListedJobHasTimer ==
    \A j \in Jobs :
        /\ InWaiting(j) => timeouts[j] = "queue"
        /\ InProgress(j) => timeouts[j] = "process"

\* C20: every waiting job whose queue timeout has not fired has an armed
\* queue timeout, and every running job whose execution timeout has not
\* fired has an armed execution timeout; a timer that fires removes its
\* entry, so a job whose timer has fired has no timer while it is still in
\* its list.
C20_ListedJobHasTimerUntilItFires ==
    \A j \in Jobs :
        /\ InWaiting(j)
           => \/ timeouts[j] = "queue"
              \/ HasEvent(j, "queue.timeout") /\ timeouts[j] = "none"
        /\ InProgress(j)
           => \/ timeouts[j] = "process"
              \/ HasEvent(j, "process.timeout") /\ timeouts[j] = "none"

\* C20 witness: one job runs with its execution timeout armed, a second runs
\* with no timer because its execution timeout has fired and its cancel()
\* has not resolved, and a third waits with its queue timeout armed.
C20_Witness ==
    \E i, j, k \in Jobs :
        /\ InProgress(i)
        /\ timeouts[i] = "process"
        /\ InProgress(j)
        /\ timeouts[j] = "none"
        /\ "timeout" \in cancelPending[j]
        /\ InWaiting(k)
        /\ timeouts[k] = "queue"

\* C15: once a promise returned by abortRender() has resolved the Renderer
\* has no live browser subprocess.
C15_NoBrowserAfterAbort ==
    (\E i \in Aborts : renderer.aborts[i] = "resolved")
    => renderer.childProcess # "alive"

\* C16: every promise returned by abortRender() resolves; while closePromise
\* is pending the timer of CLOSE_TIMEOUT is armed, and when it fires with
\* browser.close() still pending SIGKILL is sent to the subprocess, the
\* subprocess is no longer alive and the promise of the _closeBrowser call
\* resolves.
C16_AbortAlwaysResolves ==
    /\ \A i \in Aborts :
          (renderer.aborts[i] = "pending") ~> (renderer.aborts[i] = "resolved")
    /\ [](renderer.closePromise = "pending" => renderer.closeTimer)
    /\ [][(/\ renderer.closeTimer
           /\ renderer.closePromise = "pending"
           /\ renderer'.closeOp = "pending"
           /\ renderer'.closePromise # "pending")
          => /\ renderer'.closePromise \in {"killed", "cancelled"}
             /\ renderer'.closePromise = "killed" => renderer'.killSent
             /\ renderer'.childProcess # "alive"
             /\ renderer.closeOwner = "abort"
                   => renderer'.aborts[renderer.closeAbort] = "resolved"
      ]_vars

\* C16 witness: abortRender() was called on a Renderer with a browser whose
\* close() never settled; the timer fired, SIGKILL was sent and the promise
\* of abortRender() has resolved.
C16_Witness ==
    /\ renderer.aborts[1] = "resolved"
    /\ renderer.closeOwner = "abort"
    /\ renderer.closeAbort = 1
    /\ renderer.closeOp = "pending"
    /\ renderer.closePromise = "killed"
    /\ renderer.killSent
    /\ renderer.childProcess = "killed"

\* the events that end the processing of a started job
TerminalEvents ==
    {"process.success", "process.failure", "process.timeout", "process.abort"}

\* the complete event sequences of a job as documented: queue.new, then
\* queue.timeout, or queue.abort, or process.started and one terminal event
CompleteSequences ==
    {<<"queue.new", "queue.timeout">>, <<"queue.new", "queue.abort">>}
    \cup {<<"queue.new", "process.started", e>> : e \in TerminalEvents}

\* C21: the events emitted for an admitted job are a prefix of queue.new,
\* then queue.timeout or queue.abort or process.started followed by exactly
\* one of process.success, process.failure, process.timeout, process.abort;
\* so at most one terminal event is emitted and nothing follows it.
C21_EventSequenceIsPrefix ==
    \A j \in Jobs :
        addedToTheQueueAt[j]
        => \E full \in CompleteSequences : IsPrefix(emitted[j], full)

\* number of events of the set names emitted so far, over all jobs
CountEvents(names) ==
    LET count[j \in 0..NumJobs] ==
            IF j = 0 THEN 0
            ELSE count[j - 1]
                 + Cardinality({i \in 1..Len(emitted[j]) :
                                   emitted[j][i] \in names})
    IN  count[NumJobs]

\* C22: the number of process.started events emitted so far minus the number
\* of terminal events emitted so far never exceeds concurrency.
C22_StartedMinusTerminalAtMostConcurrency ==
    CountEvents({"process.started"}) - CountEvents(TerminalEvents)
        <= concurrency

\* the event that reports the cancellation of a job found in list
AbortEvent(list) == IF list = "queue" THEN "queue.abort" ELSE "process.abort"

\* the step is the continuation of job.cancel() made by _cancelJob
AbortContinuationStep(job) ==
    /\ Run("cancelled")
    /\ Head(asyncQueue).job = job
    /\ Head(asyncQueue).arg \in {"queue", "process"}
    /\ asyncQueue' # asyncQueue

ProcessHandlerStep(job) ==
    /\ Run("processed")
    /\ Head(asyncQueue).job = job
    /\ asyncQueue' # asyncQueue

\* job has a process.failure event that carries err
FailureEmitted(job, err) ==
    \E i \in 1..Len(emitted[job]) :
        emitted[job][i] = "process.failure" /\ payloads[job][i].err = err

Written(level, id, counter) == [level |-> level, id |-> id, counter |-> counter]

\* the listener returns before it logs or counts anything
Nothing == Written("none", {}, "none")

\* variant: the process.failure listener does not look at the error
bindQueueLoggerAndMetricsNoSkip(name, data) ==
    CASE name = "queue.new" -> Written("debug", data.id, "queue.events.new")
      [] name = "queue.full" -> Written("warn", data.id, "queue.events.full")
      [] name = "queue.timeout" ->
            Written("warn", data.id, "queue.events.timeout")
      [] name = "queue.abort" -> Written("debug", data.id, "queue.events.abort")
      [] name = "process.started" ->
            Written("debug", data.id, "job.events.started")
      [] name = "process.success" ->
            Written("debug", data.id, "job.events.successful")
      [] name = "process.failure" ->
            Written("warning", data.id, "job.events.failed")
      [] name = "process.abort" -> Written("debug", data.id, "job.events.abort")
      [] name = "process.timeout" ->
            Written("error", data.id, "job.events.timeout")

\* bindQueueLoggerAndMetrics(queue, logger, metrics): the listener of the
\* event name, called with the object data the event was emitted with
bindQueueLoggerAndMetrics(name, data) ==
    CASE name = "queue.new" -> Written("debug", data.id, "queue.events.new")
      [] name = "queue.full" -> Written("warn", data.id, "queue.events.full")
      [] name = "queue.timeout" ->
            Written("warn", data.id, "queue.events.timeout")
      [] name = "queue.abort" -> Written("debug", data.id, "queue.events.abort")
      [] name = "process.started" ->
            Written("debug", data.id, "job.events.started")
      [] name = "process.success" ->
            Written("debug", data.id, "job.events.successful")
      [] name = "process.failure" ->
            IF data.err = ProcessingCancelled
            THEN Nothing
            ELSE Written("warning", data.id, "job.events.failed")
      [] name = "process.abort" -> Written("debug", data.id, "job.events.abort")
      [] name = "process.timeout" ->
            Written("error", data.id, "job.events.timeout")

\* what the adapter has written for the i-th event of job
Telemetry(job, i) == bindQueueLoggerAndMetrics(emitted[job][i], payloads[job][i])

\* the i-th event of job reports a cancellation: an abort event, or a
\* process.failure that carries ProcessingCancelled
ReportsCancellation(job, i) ==
    \/ emitted[job][i] \in {"queue.abort", "process.abort"}
    \/ /\ emitted[job][i] = "process.failure"
       /\ payloads[job][i].err = ProcessingCancelled

C26_EveryEventCarriesJobId ==
    \A j \in Jobs : \A i \in 1..Len(emitted[j]) :
        /\ payloads[j][i].id = {j}
        /\ emitted[j][i] \notin {"queue.new", "queue.full"}
           => payloads[j][i].stamps # {}
        /\ Telemetry(j, i) # Nothing => Telemetry(j, i).id = {j}

\* the request was answered by handleError called with an error of kind
FailedWith(r, kinds) ==
    glue.request[r] = "answered" /\ glue.error[r].kind \in kinds

\* C27: handleError answers every error, by its kind alone: QueueFull,
\* QueueTimeout and JobTimeout with 503; NavigationError with httpCode 404
\* with 404; every other NavigationError, PuppeteerMalformedResponseError,
\* ForbiddenError and every other error with 500; for ProcessingCancelled it
\* ends the response without a body and without an error object.
C27_ErrorTranslation ==
    /\ \A e \in Errors : \A seconds \in QueueTimeoutSeconds :
          handleError(e, seconds).sent
    /\ \A r \in Requests :
          LET e == glue.error[r]
              res == glue.res[r]
          IN  /\ FailedWith(r, {QueueFull, QueueTimeout, JobTimeout})
                 => res.status = 503 /\ res.errorObject
              /\ FailedWith(r, {NavigationError})
                 => /\ res.status = IF e.httpCode = 404 THEN 404 ELSE 500
                    /\ res.errorObject
              /\ FailedWith(r, {PuppeteerMalformedResponseError,
                                ForbiddenError, Failure, Thrown})
                 => res.status = 500 /\ res.errorObject
              /\ FailedWith(r, {ProcessingCancelled})
                 => /\ res.sent
                    /\ res.body = "none"
                    /\ ~res.errorObject

\* C27 witness: one request was answered 404 for a NavigationError with
\* httpCode 404, the other 500 for a NavigationError with httpCode 503.
C27_Witness ==
    \E r, q \in Requests :
        /\ FailedWith(r, {NavigationError})
        /\ glue.error[r].httpCode = 404
        /\ glue.res[r].status = 404
        /\ FailedWith(q, {NavigationError})
        /\ glue.error[q].httpCode = 503
        /\ glue.res[q].status = 500

\* the value of the Retry-After header: the configured queue timeout in
\* seconds, 60 if none is configured
RetryAfter == IF glue.render_queue_timeout # 0 THEN glue.render_queue_timeout
                                               ELSE 60

CatchDone == renderer.chain = "done" /\ renderer.error # "none"

\* C29: a failure of articleToPdf is absorbed exactly if abortRender() was
\* called before the .catch of the chain delivers it.  If the render is not
\* aborted by then, the promise of articleToPdf is rejected with the very
\* error the chain failed with, whatever its kind; if it is aborted, the
\* promise is never rejected with that error.
C29_SwallowsIffAborted ==
    /\ [](CatchDone
          => /\ renderer.abortCalls = 0 => renderer.render = renderer.error
             /\ renderer.render \in RenderErrors
                => renderer.render = renderer.error)
    /\ [][/\ (~CatchDone /\ CatchDone')
             => IF renderer'.renderAborted
                THEN renderer'.render \notin RenderErrors
                ELSE renderer'.render = renderer'.error
          /\ (renderer.render = "pending" /\ renderer'.render \in RenderErrors)
             => ~renderer'.renderAborted /\ CatchDone'
          /\ renderer.error # "none" => renderer'.error = renderer.error
      ]_vars

\* C29 witness: abortRender() was called while the chain ran, the step in
\* progress failed with a protocol error, the error was absorbed and the
\* promise of articleToPdf was rejected with ProcessingCancelled instead.
C29_Witness ==
    /\ renderer.renderAborted
    /\ renderer.error = "ProtocolError"
    /\ CatchDone
    /\ renderer.render = ProcessingCancelled

\* a run in which fewer jobs were submitted than maxTaskCount, no queue
\* timeout has fired and no caller has cancelled a promise
QuietRun ==
    /\ Cardinality({j \in Jobs : promise[j] # "none"}) < maxTaskCount
    /\ \A j \in Jobs :
          ~HasEvent(j, "queue.timeout") /\ promise[j] # "cancelled"

\* C30: in a run in which the queue never fills up, no queue timeout fires
\* and no caller cancels, no promise is rejected with QueueFull, QueueTimeout
\* or ProcessingCancelled; the promise of a job whose process() succeeded
\* before its execution timeout is resolved, that of a job whose process()
\* failed before its execution timeout is rejected with the error of
\* process(), and a promise settled while process() has not settled is
\* rejected with JobTimeout.
C30_OutcomeIndependence ==
    QuietRun
    => \A j \in Jobs :
          /\ promise[j] \notin {QueueFull, QueueTimeout, ProcessingCancelled}
          /\ (HasEvent(j, "process.success") /\ ~HasEvent(j, "process.timeout"))
             => promise[j] = "resolved"
          /\ (HasEvent(j, "process.failure") /\ ~HasEvent(j, "process.timeout"))
             => promise[j] \in {Failure, Thrown}
          /\ (promise[j] \notin {"none", "pending"}
              /\ processState[j] = "pending")
             => promise[j] = JobTimeout

\* process() of job is invoked in the step
ProcessInvoked(job) == processState[job] = "idle" /\ processState'[job] # "idle"

\* number of times job was started
TimesStarted(job) ==
    Cardinality({i \in 1..Len(startOrder) : startOrder[i] = job})

\* C33: process() is invoked at most once per admitted job, in the step that
\* moves the job from the waiting to the running list, clears its queue
\* timeout, arms its execution timeout, records the start and emits
\* process.started; it is never invoked for a job rejected with QueueFull,
\* cancelled while waiting or timed out while waiting.  A job submitted
\* while a slot is free and nothing waits is started by push itself.
C33_ProcessInvokedOnceAfterPromotion ==
    /\ [](\A j \in Jobs :
            /\ TimesStarted(j) <= 1
            /\ processState[j] # "idle"
               => /\ addedToTheQueueAt[j]
                  /\ processStartedAt[j]
                  /\ TimesStarted(j) = 1
                  /\ HasEvent(j, "process.started")
                  /\ ~HasEvent(j, "queue.full")
                  /\ ~HasEvent(j, "queue.timeout")
                  /\ ~HasEvent(j, "queue.abort"))
    /\ [][\A j \in Jobs :
            /\ ProcessInvoked(j)
               => /\ promise[j] \in {"none", "pending"}
                  /\ ~InWaiting(j)'
                  /\ processStartedAt'[j]
                  /\ timeouts'[j] = "process"
                  /\ emitted'[j][Len(emitted'[j])]
                        \in {"process.started", "process.failure"}
                  /\ processState'[j] = "pending" => InProgress(j)'
            /\ (/\ promise[j] = "none" /\ promise'[j] # "none"
                /\ waitingJobs = <<>>
                /\ Len(inProgressJobs) < concurrency
                /\ Len(inProgressJobs) < maxTaskCount)
               => ProcessInvoked(j)
      ]_vars

\* ------------------------------------------- listeners that call the queue

\* A listener of process.started that calls back into the queue while
\* _processQueue is still running: it pushes the job in next (a set of at
\* most one job not yet submitted), or, when next is empty, calls
\* _processQueue itself.
listener(s, next, throws) ==
    IF next = {}
    THEN _processQueue(s, throws)
    ELSE push(s, CHOOSE k \in next : TRUE, throws)

\* _processQueue with such a listener attached to process.started
_processQueueReentered(s, throws, next, nestedThrows) ==
    IF Len(s.inProgressJobs) >= s.concurrency THEN s
    ELSE IF Len(s.waitingJobs) = 0 THEN s
    ELSE IF s.processing THEN s
    ELSE finishStart(listener(started(s, Head(s.waitingJobs),
                                      Tail(s.waitingJobs)),
                              next, nestedThrows),
                     Head(s.waitingJobs), throws)

\* the jobs a listener can push while job is being submitted
NextJob(job) == {{}} \cup {{k} : k \in {job + 1} \cap Jobs}

\* queue.push(job) with the listener attached
SubmitReentered(job) ==
    /\ ~draining
    /\ promise[job] = "none"
    /\ \A k \in Jobs : k < job => promise[k] # "none"
    /\ ~isQueueFull(State)
    /\ \E throws \in BOOLEAN, nestedThrows \in BOOLEAN, next \in NextJob(job) :
          Apply(_processQueueReentered(
                    enqueue([State EXCEPT !.promise[job] = "pending"], job),
                    throws, next, nestedThrows))
    /\ UNCHANGED draining

ListenerNext ==
    \/ Next
    \/ \E job \in Jobs : SubmitReentered(job)

ListenerSpec == Init /\ [][ListenerNext]_vars

\* the state in which the listeners of process.started run when the job at
\* the head of the waiting list is started
ListenerState == started(State, Head(waitingJobs), Tail(waitingJobs))

\* job is removed from the waiting list in the step without being started
Dropped(job) == InWaiting(job) /\ ~InWaiting(job)' /\ ~processStartedAt'[job]

\* C35: _processQueue is not re-entrant.  A call made while another call is
\* running (by a listener of process.started, directly or through a push made
\* by that listener) returns the state it was given: it starts nothing, and
\* a job pushed by the listener is left waiting.  Every step starts at most
\* one job, the first waiting job that the step does not drop, and the
\* _processing flag is false whenever a step is over.
C35_AdvanceNonReentrant ==
    /\ [](/\ ~processing
          /\ waitingJobs # <<>> =>
                \A throws \in BOOLEAN :
                    /\ _processQueue(ListenerState, throws) = ListenerState
                    /\ \A k \in Jobs :
                          promise[k] = "none" /\ ~isQueueFull(ListenerState) =>
                             LET s == enqueue([ListenerState EXCEPT
                                                  !.promise[k] = "pending"], k)
                             IN  push(ListenerState, k, throws) = s)
    /\ [][/\ Len(startOrder') <= Len(startOrder) + 1
          /\ \A j \in Jobs :
                (processState[j] = "idle" /\ processState'[j] # "idle") =>
                   /\ startOrder' = Append(startOrder, j)
                   /\ \A i \in 1..Len(waitingJobs) :
                         (\A h \in 1..i : waitingJobs[h] # j)
                            => Dropped(waitingJobs[i])
          /\ \A j \in Jobs :
                (promise[j] = "none" /\ promise'[j] = "pending"
                   /\ Len(startOrder') = Len(startOrder) + 1
                   /\ startOrder'[Len(startOrder')] # j)
                => /\ InWaiting(j)'
                   /\ processState'[j] = "idle"
                   /\ timeouts'[j] = "queue"
         ]_vars

\* a job pushed by a listener of process.started is waiting although a slot
\* is free: only the _processing flag kept it from being started
C35_Witness ==
    /\ ~draining
    /\ \E j \in Jobs :
          /\ InWaiting(j)
          /\ promise[j] = "pending"
          /\ Len(inProgressJobs) < concurrency
          /\ Len(startOrder) = 1
          /\ \A k \in Jobs : promise[k] \in {"none", "pending"}
          /\ \A k \in Jobs : cancelCalls[k] = 0

KillCalled ==
    renderer.closePromise = "pending" /\ renderer'.closePromise = "killed"

\* the subprocess gets the signal in the step
KillDelivered ==
    renderer.childProcess # "killed" /\ renderer'.childProcess = "killed"

\* C40: the subprocess is killed only when needed and at most once.  kill is
\* called only by the rejection handler of closePromise, when browser.close()
\* has rejected or has not settled by CLOSE_TIMEOUT, and never twice; it is
\* not called once browser.close() has resolved in time or the subprocess has
\* exited while the close was awaited; the signal reaches only a subprocess
\* that is alive, and a subprocess that is alive when the handler runs is
\* killed.
C40_KillOnlyWhenNeededAndOnce ==
    /\ [](/\ renderer.closePromise \in {"resolved", "cancelled"}
                => ~renderer.killSent
          /\ renderer.killSent => renderer.closePromise = "killed"
          /\ renderer.childProcess = "killed" => renderer.killSent)
    /\ [][/\ KillCalled =>
                /\ ~renderer.killSent
                /\ renderer.closeOp = "pending"
                /\ renderer.closeTimer
                /\ renderer'.closeOp \in {"pending", "rejected"}
                /\ renderer.childProcess = "alive" => KillDelivered
          /\ (~renderer.killSent /\ renderer'.killSent) => KillCalled
          /\ KillDelivered => KillCalled /\ renderer.childProcess = "alive"
          /\ (renderer.closePromise = "pending"
                /\ renderer'.closeOp = "resolved")
                => renderer'.closePromise = "resolved"
          /\ (renderer.closePromise = "pending"
                /\ renderer.childProcess = "alive"
                /\ renderer'.childProcess = "exited")
                => renderer'.closePromise \in {"resolved", "cancelled"}
          /\ renderer.childProcess = "exited"
                => renderer'.childProcess = "exited"
         ]_vars

\* the subprocess was killed after CLOSE_TIMEOUT passed with browser.close()
\* still pending
C40_Witness ==
    /\ renderer.killSent
    /\ renderer.childProcess = "killed"
    /\ renderer.closeOp = "pending"
    /\ renderer.closePromise = "killed"

\* the promise articleToPdf returned settles in the step
RenderSettles ==
    renderer.render = "pending" /\ renderer'.render # "pending"

\* C39: when the promise of an articleToPdf that was not aborted settles,
\* the promise of the _closeBrowser call made by the chain has resolved in
\* that step: the Renderer holds no browser, no close is being awaited and
\* no subprocess is alive.  It resolves after page.pdf succeeded and is
\* rejected with the error the chain failed with otherwise.
C39_SettlesAfterBrowserClosed ==
    [][(RenderSettles /\ ~renderer'.renderAborted) =>
          /\ ~renderer'.browser
          /\ renderer'.childProcess # "alive"
          /\ renderer'.closePromise # "pending"
          /\ ~renderer'.closeTimer
          /\ renderer'.chain = "done"
          /\ renderer'.render \in {"resolved", renderer'.error}
          /\ renderer'.render = "resolved"
                => /\ renderer.closeOwner = "pdf"
                   /\ renderer.closePromise = "pending"
          /\ renderer'.render # "resolved" => renderer'.render \in RenderErrors
      ]_vars

\* a render that was not aborted delivered its pdf after the browser had
\* shut down
C39_Witness ==
    /\ renderer.render = "resolved"
    /\ ~renderer.renderAborted
    /\ renderer.closePromise = "resolved"
    /\ renderer.childProcess = "exited"
    /\ ~renderer.browser

\* abortRender() is called in the step
AbortCalled == renderer'.abortCalls = renderer.abortCalls + 1

\* the Renderer without the record of the abortRender calls made
WithoutCalls(r) ==
    [r EXCEPT !.abortCalls = 0, !.aborts = [i \in Aborts |-> "none"]]

\* C34: abortRender is idempotent.  A call that finds a browser clears the
\* handle and starts one close, with its timer; it returns a pending promise
\* and kills nothing by itself.  Once a call has found a browser no later
\* call finds one: every later call returns a resolved promise and leaves
\* the Renderer as it was, so that after any number of calls the Renderer is
\* aborted and holds no browser.  kill is called at most once.
C34_AbortIsIdempotent ==
    /\ [](renderer.closeAbort >= 1 =>
             ~renderer.browser /\ renderer.renderAborted)
    /\ [][/\ AbortCalled =>
                /\ renderer'.renderAborted /\ ~renderer'.browser
                /\ renderer.browser =>
                      /\ renderer'.closeOp = "pending"
                      /\ renderer'.closePromise = "pending"
                      /\ renderer'.closeTimer
                      /\ renderer'.closeAbort = renderer'.abortCalls
                      /\ renderer'.aborts[renderer'.abortCalls] = "pending"
                      /\ renderer'.killSent = renderer.killSent
                      /\ renderer'.childProcess = renderer.childProcess
                /\ ~renderer.browser =>
                      /\ renderer'.aborts[renderer'.abortCalls] = "resolved"
                      /\ WithoutCalls(renderer') =
                            WithoutCalls([renderer EXCEPT
                                             !.renderAborted = TRUE])
                /\ renderer.closeAbort >= 1 =>
                      WithoutCalls(renderer') = WithoutCalls(renderer)
          /\ KillCalled => ~renderer.killSent
         ]_vars

\* a second abortRender call has resolved at once while the close started by
\* the first call is still awaited
C34_Witness ==
    /\ renderer.abortCalls = 2
    /\ renderer.closeAbort = 1
    /\ renderer.aborts[1] = "pending"
    /\ renderer.aborts[2] = "resolved"
    /\ renderer.closePromise = "pending"
    /\ renderer.renderAborted /\ ~renderer.browser

\* ------------------------------------------------ the configured queue

\* conf as far as the queue size goes; 0 stands for an option that is not set
Confs ==
    [render_concurrency : 0..MaxConcurrency,
     max_render_queue_size : 0..MaxTasks]

\* the options the route constructs the queue with
queueOptions(conf) ==
    [concurrency |-> IF conf.render_concurrency = 0
                     THEN 1 ELSE conf.render_concurrency,
     maxTaskCount |-> IF conf.max_render_queue_size = 0
                      THEN 3 ELSE conf.max_render_queue_size]

\* the queue is the one the route constructs from conf
Configured(conf) ==
    /\ queueOptions(conf).concurrency = concurrency
    /\ queueOptions(conf).maxTaskCount = maxTaskCount

\* job is pushed in the step
Pushed(job) == promise[job] = "none" /\ promise'[job] # "none"

Schemes == {"", "http", "https", "data", "ftp", "javascript"}

Urls ==
    [scheme : Schemes, slashes : BOOLEAN, auth : {"", "user"},
     host : {"", "en.wikipedia.org", "localhost"}]

\* the hosts this._hostBlacklist matches
hostBlacklist == {"localhost"}

\* url.parse of Node: the protocols that are followed by "//", and the ones
\* that never have a host
slashedProtocol == {"http", "https", "ftp"}

hostlessProtocol == {"javascript"}

\* urlParser.parse(url), as far as _isAllowed reads it; "null" stands for
\* null.  A host is parsed after "//", and for a protocol that is not a
\* slashed one also without it; without a protocol "//" is only taken as the
\* start of a host when a user and a host follow.
parse(url) ==
    LET seen == url.slashes /\ (url.scheme # ""
                                  \/ (url.auth # "" /\ url.host # ""))
        slashes == seen /\ url.scheme \notin hostlessProtocol
        hasHost == /\ url.scheme \notin hostlessProtocol
                   /\ \/ slashes
                      \/ url.scheme # "" /\ url.scheme \notin slashedProtocol
    IN  [protocol |-> IF url.scheme = "" THEN "null" ELSE url.scheme,
         auth |-> IF hasHost /\ url.auth # "" THEN url.auth ELSE "null",
         host |-> IF hasHost THEN url.host ELSE "null"]

\* _isAllowed(url): "true" or "false" for what it returns, "TypeError" when
\* .match is called on a protocol or a host that is null
_isAllowed(url) ==
    LET parsedUrl == parse(url)
    IN  IF parsedUrl.protocol = "null" THEN "TypeError"
        ELSE IF parsedUrl.protocol \notin {"http", "https", "data"}
             THEN "false"
        ELSE IF parsedUrl.auth # "null" THEN "false"
        ELSE IF parsedUrl.host = "null" THEN "TypeError"
        ELSE IF parsedUrl.host \in hostBlacklist THEN "false"
        ELSE "true"

\* articleToPdf(url) up to puppeteer.launch
articleToPdfUrl(r, url) ==
    LET verdict == _isAllowed(url)
    IN  IF verdict = "true"
        THEN [r EXCEPT !.chain = "launch", !.render = "pending",
                       !.url = {url}]
        ELSE [r EXCEPT !.chain = "threw", !.url = {url},
                       !.error = IF verdict = "false" THEN ForbiddenError
                                                      ELSE "TypeError"]

\* the listener of page.on('request'): the request is continued, aborted
\* with accessdenied, or left alone when the listener throws
onRequest(r, url) ==
    LET verdict == _isAllowed(url)
    IN  [r EXCEPT !.request =
            {[url |-> url,
              handling |-> IF verdict = "true" THEN "continue"
                           ELSE IF verdict = "false" THEN "accessdenied"
                           ELSE "TypeError"]}]

\* what page.goto resolves with: no response, or a response with a status
Statuses == {0, 200, 204, 299, 301, 304, 399, 400, 404, 500, 503}

Responses ==
    [present : {FALSE}, status : {0}] \cup [present : {TRUE}, status : Statuses]

\* variant: every status below 400 is ok
okBelow400(response) == response.status < 400

\* response.ok() of puppeteer
ok(response) ==
    response.status = 0 \/ (response.status >= 200 /\ response.status <= 299)

\* the handler of the result of page.goto
gotoResolved(r, response) ==
    LET r1 == [r EXCEPT !.response = {response}]
    IN  IF ~response.present
        THEN _closeBrowser([r1 EXCEPT !.chain = "close",
                               !.error = PuppeteerMalformedResponseError],
                           "catch", 0)
        ELSE IF ~ok(response)
        THEN _closeBrowser([r1 EXCEPT !.chain = "close",
                                      !.error = NavigationError],
                           "catch", 0)
        ELSE [r1 EXCEPT !.chain = "pdf"]

Navigate ==
    /\ renderer.chain = "idle"
    /\ \E url \in Urls : renderer' = articleToPdfUrl(renderer, url)
    /\ UNCHANGED <<queueVars, glue>>

PageReady == renderer.chain = "newPage" /\ StepSucceeds

RequestIntercepted ==
    /\ renderer.chain = "goto"
    /\ renderer.connected
    /\ \E url \in Urls : renderer' = onRequest(renderer, url)
    /\ UNCHANGED <<queueVars, glue>>

GotoResolves ==
    /\ renderer.chain = "goto"
    /\ renderer.connected
    /\ \E response \in Responses :
          renderer' = gotoResolved(renderer, response)
    /\ UNCHANGED <<queueVars, glue>>

PdfSucceeds == renderer.chain = "pdf" /\ StepSucceeds

PdfFails == renderer.chain = "pdf" /\ StepFails

NavigationNext ==
    \/ Navigate
    \/ LaunchResolves
    \/ PageReady
    \/ RequestIntercepted
    \/ GotoResolves
    \/ PdfSucceeds
    \/ PdfFails
    \/ CloseCompletes
    \/ CloseTimeout

NavigationSpec == RendererInit /\ [][NavigationNext]_vars

\* the url the step passes to _isAllowed: the one articleToPdf is called
\* with, or the one of the request intercepted
Checked ==
    IF renderer.url = {} THEN renderer'.url
    ELSE IF renderer'.request # renderer.request
    THEN {q.url : q \in renderer'.request}
    ELSE {}

\* the allow rule on the parts of a parsed url: protocol http, https or
\* data, no user, and no host that the blacklist matches
Accepts(url) ==
    /\ parse(url).protocol \in {"http", "https", "data"}
    /\ parse(url).auth = "null"
    /\ parse(url).host \notin hostBlacklist

\* C36: _isAllowed returns true exactly for the urls the allow rule accepts
\* and false for every other url, whatever the url is; articleToPdf called
\* with a url that is not accepted throws ForbiddenError with no browser
\* launched, and every intercepted request is continued when its url is
\* accepted and aborted with accessdenied when it is not.
C36_AllowRuleTotal ==
    [][\A url \in Checked :
          /\ _isAllowed(url) = IF Accepts(url) THEN "true" ELSE "false"
          /\ renderer.url = {} =>
                IF Accepts(url)
                THEN renderer'.chain = "launch"
                ELSE /\ renderer'.chain = "threw"
                     /\ renderer'.error = ForbiddenError
                     /\ ~renderer'.browser
                     /\ renderer'.childProcess = "none"
          /\ renderer.url # {} =>
                \A q \in renderer'.request :
                    q.handling = IF Accepts(url) THEN "continue"
                                                 ELSE "accessdenied"
      ]_vars

\* page.goto resolves in the step
Navigated == renderer.response = {} /\ renderer'.response # {}

\* the chain goes on to page.pdf
ProceedsToPdf ==
    /\ renderer'.chain = "pdf"
    /\ renderer'.error = renderer.error
    /\ renderer'.render = renderer.render
    /\ renderer'.closeOp = renderer.closeOp

\* the chain fails with error: its .catch closes the browser
FailsWith(error) ==
    /\ renderer'.error = error
    /\ renderer'.chain \in {"close", "done"}
    /\ ~renderer'.browser

QueueTimeoutTicks == 2

ExecutionTimeoutTicks == 3

\* the time up to which the clock runs
Horizon == 7

\* the delay of the timer armed for job
Delay(job) ==
    IF timeouts[job] = "queue" THEN QueueTimeoutTicks
                               ELSE ExecutionTimeoutTicks

\* the timer of job has run its time
Due(job) ==
    timeouts[job] # "none" /\ clock.now - clock.armedAt[job] >= Delay(job)

\* time passes: nothing is left to run at the present time
Tick ==
    /\ ~draining
    /\ asyncQueue = <<>>
    /\ clock.now < Horizon
    /\ \A job \in Jobs : ~Due(job)
    /\ clock' = [clock EXCEPT !.now = @ + 1]
    /\ UNCHANGED <<queueState, renderer, glue>>

\* the timers fire when their time has passed
QueueTimeoutDue(job) == Due(job) /\ QueueTimeoutFire(job)

ProcessTimeoutDue(job) == Due(job) /\ ProcessTimeoutFire(job)

TimedNext ==
    \/ Tick
    \/ \E job \in {j \in Jobs : j <= LiveJobs} : Submit(job)
    \/ \E job \in Jobs : QueueTimeoutDue(job)
    \/ \E job \in Jobs : ProcessTimeoutDue(job)
    \/ \E job \in Jobs : ProcessSettles(job)
    \/ \E job \in Jobs : CancelResolves(job)
    \/ RunPushFinally
    \/ RunProcessHandler
    \/ RunProcessFinally
    \/ RunCancelContinuation

TimedInit == Init /\ concurrency = 1

TimedSpec == TimedInit /\ [][TimedNext]_vars

\* the time job has been outstanding for: up to now, or up to the time its
\* promise was settled
Outstanding(job) ==
    (IF promise[job] = "pending" THEN clock.now ELSE clock.settledAt[job])
        - clock.addedAt[job]

\* the time that has passed since job was started, up to now or up to the
\* time its promise was settled
Running(job) ==
    (IF promise[job] = "pending" THEN clock.now ELSE clock.settledAt[job])
        - clock.startedAt[job]

\* C31: the promise of a job that was admitted is settled at most
\* queueTimeout + executionTimeout after the job was pushed, and a job whose
\* execution timer has fired is rejected with JobTimeout at most
\* executionTimeout after it was started.
C31_BoundedResponseTime ==
    \A j \in Jobs :
        /\ addedToTheQueueAt[j] =>
              Outstanding(j) <= QueueTimeoutTicks + ExecutionTimeoutTicks
        /\ (HasEvent(j, "process.timeout")
              /\ promise[j] \in {"pending", JobTimeout}) =>
              Running(j) <= ExecutionTimeoutTicks

====
